---- MODULE Spec2Model ----
(***************************************************************************)
(* Model of the FlowchartGame component of                                 *)
(* src/src/components/Queryflowchart.tsx: the graph state (nodes, edges),  *)
(* the scorer (handleSubmit), reset (handleReset) and the timer-driven     *)
(* solution reveal (handleShowSolution).                                   *)
(*                                                                         *)
(* Time is counted in units of 100 ms (the stride of the reveal).  The     *)
(* browser's timer queue is the sequence `timers`, kept in registration    *)
(* order; each entry carries the time remaining until it is due.  Timers   *)
(* fire in order of due time and, for equal due times, in registration     *)
(* order.  React state is read by the handlers after the last render, so   *)
(* every handler sees the current nodes and edges.                         *)
(*                                                                         *)
(* The accuracy string produced by toFixed(1) is represented by the number *)
(* of tenths of a percent it denotes ("72.7" is 727).                      *)
(***************************************************************************)
EXTENDS Integers, Sequences, FiniteSets, TLC

(* ---------------------------- bounds ---------------------------------- *)
\* number of graph commands (reveal requests and user edits: addNode,
\* connect, removeNode, removeEdge) explored together with the timers
MaxCmds == 2
\* number of user graph edits explored on an idle canvas
MaxEdits == 3
\* the user works on the nodes of the first MaxPalette kinds of the palette
MaxPalette == 2

(* ------------------------ program constants --------------------------- *)
\* setTimeout(..., i * 100): one stride is one time unit
Stride == 1
\* setTimeout(() => fitView(...), 100)
FitDelay == 1
\* the thresholds of handleSubmit, in tenths of a percent
ExcellentAt == 900
GoodAt == 700
FairAt == 500

nodeTemplates ==
  << "User", "Knowledge Base", "AI Engine (Chain)", "Retriever", "LLM Model",
     "Prompt Template", "Output/Results Formatted", "Evaluation",
     "API Endpoints", "Human Feedback" >>

expectedFlow ==
  << <<"User", "Knowledge Base">>,
     <<"Knowledge Base", "AI Engine (Chain)">>,
     <<"AI Engine (Chain)", "Retriever">>,
     <<"AI Engine (Chain)", "API Endpoints">>,
     <<"Retriever", "LLM Model">>,
     <<"LLM Model", "Prompt Template">>,
     <<"Prompt Template", "Output/Results Formatted">>,
     <<"Output/Results Formatted", "User">>,
     <<"Output/Results Formatted", "Evaluation">>,
     <<"Evaluation", "Human Feedback">>,
     <<"Human Feedback", "Prompt Template">> >>

nodePositions ==
  [l \in {nodeTemplates[k] : k \in DOMAIN nodeTemplates} |->
     CASE l = "User"                     -> [x |-> 400, y |-> 50]
       [] l = "Knowledge Base"           -> [x |-> 200, y |-> 150]
       [] l = "AI Engine (Chain)"        -> [x |-> 400, y |-> 250]
       [] l = "Retriever"                -> [x |-> 250, y |-> 350]
       [] l = "LLM Model"                -> [x |-> 400, y |-> 350]
       [] l = "Prompt Template"          -> [x |-> 400, y |-> 450]
       [] l = "Output/Results Formatted" -> [x |-> 400, y |-> 550]
       [] l = "Evaluation"               -> [x |-> 250, y |-> 650]
       [] l = "Human Feedback"           -> [x |-> 150, y |-> 750]
       [] l = "API Endpoints"            -> [x |-> 550, y |-> 350]]

\* 250 + Math.random() * 400 lies in [250, 650): the two ends of the range
RandomXs == {250, 649}

(* ----------------------------- state ---------------------------------- *)
VARIABLES
  nodes,             \* useNodesState: sequence of [id, label, x, y]
  edges,             \* useEdgesState: sequence of [id, source, target]
  result,            \* useState<Result|null>: <<>> is null, <<r>> a Result
  showSolution,      \* useState(false)
  showResultOverlay, \* useState(false)
  timers,            \* pending setTimeout callbacks, in registration order
  now,               \* the clock, in strides
  nextId,            \* the next value uuidv4() returns
  gen,               \* number of handleShowSolution calls so far
  fits,              \* fits[g]: fitView calls made by the timers of reveal g
  effect,            \* the sounds/confetti emitted by the last handler
  log,               \* edge insertions made by timers: [gen, i, at]
  lastCmd,           \* the last user command handled
  quiet,             \* a reveal was requested and no graph command (edit,
                     \* reset, reveal) was handled since
  idleStart,         \* the latest reveal began with no timer pending
  fresh,             \* result was computed from the current nodes and edges
  ops,               \* user graph edits made so far
  superseded         \* the reveals that had an edge timer pending when
                     \* handleReset or handleShowSolution was called

vars == << nodes, edges, result, showSolution, showResultOverlay, timers, now,
           nextId, gen, fits, effect, log, lastCmd, quiet, idleStart, fresh,
           ops, superseded >>

(* ---------------------------- helpers --------------------------------- *)
\* FindIndex returning the last node with the label (findLast)
FindLastIndex(nds, l) ==
  LET hits == {k \in DOMAIN nds : nds[k].label = l}
  IN IF hits = {} THEN 0 ELSE CHOOSE k \in hits : \A m \in hits : k >= m

\* Array.prototype.find by label: the index of the first node whose label
\* is l, 0 when there is none
FindIndex(nds, l) ==
  LET hits == {k \in DOMAIN nds : nds[k].label = l}
  IN IF hits = {} THEN 0 ELSE CHOOSE k \in hits : \A m \in hits : k <= m

NodeIds(nds) == {nds[k].id : k \in DOMAIN nds}

(* ---------------------------- scorer ---------------------------------- *)
\* Match without the search for an edge: both nodes on the canvas suffice
MatchNodesOnly(nds, eds, r) ==
  /\ FindIndex(nds, expectedFlow[r][1]) # 0
  /\ FindIndex(nds, expectedFlow[r][2]) # 0

\* Match accepting an edge between the two nodes in either direction
MatchEitherDirection(nds, eds, r) ==
  LET si == FindIndex(nds, expectedFlow[r][1])
      ti == FindIndex(nds, expectedFlow[r][2])
  IN /\ si # 0
     /\ ti # 0
     /\ \E j \in DOMAIN eds :
          \/ eds[j].source = nds[si].id /\ eds[j].target = nds[ti].id
          \/ eds[j].source = nds[ti].id /\ eds[j].target = nds[si].id

\* Match counting a pair of which a node is missing from the canvas
MatchMissingCounts(nds, eds, r) ==
  LET si == FindIndex(nds, expectedFlow[r][1])
      ti == FindIndex(nds, expectedFlow[r][2])
  IN \/ si = 0
     \/ ti = 0
     \/ \E j \in DOMAIN eds :
          eds[j].source = nds[si].id /\ eds[j].target = nds[ti].id

\* the body of expectedFlow.forEach in handleSubmit for reference pair r:
\* TRUE when `correct` is incremented
Match(nds, eds, r) ==
  LET si == FindIndex(nds, expectedFlow[r][1])
      ti == FindIndex(nds, expectedFlow[r][2])
  IN /\ si # 0
     /\ ti # 0
     /\ \E j \in DOMAIN eds :
          eds[j].source = nds[si].id /\ eds[j].target = nds[ti].id

\* Correct counting every edge that joins the two nodes (filter instead of
\* find)
RECURSIVE CorrectPerEdgeFrom(_, _, _)
CorrectPerEdgeFrom(nds, eds, r) ==
  IF r > Len(expectedFlow) THEN 0
  ELSE LET si == FindIndex(nds, expectedFlow[r][1])
           ti == FindIndex(nds, expectedFlow[r][2])
           here == IF si = 0 \/ ti = 0 THEN 0
                   ELSE Cardinality({j \in DOMAIN eds :
                          eds[j].source = nds[si].id
                          /\ eds[j].target = nds[ti].id})
       IN here + CorrectPerEdgeFrom(nds, eds, r + 1)
CorrectPerEdge(nds, eds) == CorrectPerEdgeFrom(nds, eds, 1)

\* the value of `correct` after the forEach
Correct(nds, eds) ==
  Cardinality({r \in DOMAIN expectedFlow : Match(nds, eds, r)})

\* ToFixed1 truncating instead of rounding
ToFixed1Floor(num, den) == (1000 * num) \div den

\* ((num / den) * 100).toFixed(1), as tenths: round half up of 1000*num/den.
\* For den = 11 and num in 0..11 no quotient lies within floating-point
\* error of a rounding boundary, so exact arithmetic gives the same digits.
ToFixed1(num, den) == (2000 * num + den) \div (2 * den)

\* the if/else chain on parseFloat(accuracy)
Feedback(accuracy) ==
  IF accuracy >= ExcellentAt THEN "Excellent"
  ELSE IF accuracy >= GoodAt THEN "Good"
  ELSE IF accuracy >= FairAt THEN "Fair"
  ELSE "NeedsWork"

\* Celebrates with the boundary at 0.6
CelebratesAtSixty(correct) == 10 * correct >= 6 * Len(expectedFlow)

\* correct / expectedFlow.length >= 0.7
Celebrates(correct) == 10 * correct >= 7 * Len(expectedFlow)

\* the sounds and confetti of handleSubmit
Effects(correct) ==
  IF Celebrates(correct) THEN << "success", "confetti" >> ELSE << "error" >>

\* the Result handleSubmit builds from `correct`
Score(correct) ==
  LET accuracy == ToFixed1(correct, Len(expectedFlow))
  IN [correct |-> correct, total |-> Len(expectedFlow),
      accuracy |-> accuracy, feedback |-> Feedback(accuracy)]

\* the Result handleSubmit stores
Evaluate(nds, eds) == Score(Correct(nds, eds))

(* ------------------------ solution builder ---------------------------- *)
\* the node handleShowSolution creates for label l with uuid id
SolutionNode(id, l) ==
  [id |-> id, label |-> l, x |-> nodePositions[l].x, y |-> nodePositions[l].y]

\* createdNodes after the first k iterations of the forEach, when uuidv4()
\* returns first, first+1, ...
RECURSIVE CreatedNodes(_, _)
CreatedNodes(k, first) ==
  IF k = 0 THEN <<>>
  ELSE LET prev == CreatedNodes(k - 1, first)
           src == expectedFlow[k][1]
           tgt == expectedFlow[k][2]
           withSrc == IF FindIndex(prev, src) = 0
                      THEN Append(prev, SolutionNode(first + Len(prev), src))
                      ELSE prev
       IN IF FindIndex(withSrc, tgt) = 0
          THEN Append(withSrc, SolutionNode(first + Len(withSrc), tgt))
          ELSE withSrc

\* solutionEdges: edge k has id `e-${index}` with index = k - 1
SolutionEdges(first) ==
  LET created == CreatedNodes(Len(expectedFlow), first)
  IN [k \in DOMAIN expectedFlow |->
        [id |-> [tag |-> "e", a |-> k - 1, b |-> 0],
         source |-> created[FindIndex(created, expectedFlow[k][1])].id,
         target |-> created[FindIndex(created, expectedFlow[k][2])].id]]

(* ----------------------------- Init ----------------------------------- *)
Init ==
  /\ nodes = <<>>
  /\ edges = <<>>
  /\ result = <<>>
  /\ showSolution = FALSE
  /\ showResultOverlay = FALSE
  /\ timers = <<>>
  /\ now = 0
  /\ nextId = 1
  /\ gen = 0
  /\ fits = [g \in 1..MaxCmds |-> 0]
  /\ effect = <<>>
  /\ log = <<>>
  /\ lastCmd = "none"
  /\ quiet = FALSE
  /\ idleStart = FALSE
  /\ fresh = FALSE
  /\ ops = 0
  /\ superseded = {}

(* ---------------------------- actions --------------------------------- *)
\* addNode putting the new node in front of the nodes on the canvas
addNodeFront(label, x) ==
  /\ nodes' = << [id |-> nextId, label |-> label,
                  x |-> x, y |-> 100 + Len(nodes) * 80] >> \o nodes
  /\ nextId' = nextId + 1
  /\ effect' = <<>>
  /\ lastCmd' = "addNode"
  /\ quiet' = FALSE
  /\ fresh' = FALSE
  /\ ops' = ops + 1
  /\ UNCHANGED << edges, result, showSolution, showResultOverlay, timers, now,
                  gen, fits, log, idleStart, superseded >>

\* addNode(label), lines 171-196; x is the random abscissa
addNode(label, x) ==
  /\ nodes' = Append(nodes, [id |-> nextId, label |-> label,
                             x |-> x, y |-> 100 + Len(nodes) * 80])
  /\ nextId' = nextId + 1
  /\ effect' = <<>>
  /\ lastCmd' = "addNode"
  /\ quiet' = FALSE
  /\ fresh' = FALSE
  /\ ops' = ops + 1
  /\ UNCHANGED << edges, result, showSolution, showResultOverlay, timers, now,
                  gen, fits, log, idleStart, superseded >>

\* reactflow's addEdge(connection, eds): the id is built from the two ends,
\* and a connection that already exists leaves eds as it is
addEdge(source, target, eds) ==
  IF \E j \in DOMAIN eds : eds[j].source = source /\ eds[j].target = target
  THEN eds
  ELSE Append(eds, [id |-> [tag |-> "rf", a |-> source, b |-> target],
                    source |-> source, target |-> target])

\* onConnect(connection), lines 161-169: the two ids are not looked up in
\* nodes
onConnect(source, target) ==
  /\ edges' = addEdge(source, target, edges)
  /\ effect' = << "connect" >>
  /\ lastCmd' = "connect"
  /\ quiet' = FALSE
  /\ fresh' = FALSE
  /\ ops' = ops + 1
  /\ UNCHANGED << nodes, result, showSolution, showResultOverlay, timers, now,
                  nextId, gen, fits, log, idleStart, superseded >>

\* onNodesChange with a change of type 'remove' for node id (line 128):
\* the node is filtered out, the edges are left alone
removeNode(id) ==
  /\ id \in NodeIds(nodes)
  /\ LET keep(n) == n.id # id IN nodes' = SelectSeq(nodes, keep)
  /\ effect' = <<>>
  /\ lastCmd' = "removeNode"
  /\ quiet' = FALSE
  /\ fresh' = FALSE
  /\ ops' = ops + 1
  /\ UNCHANGED << edges, result, showSolution, showResultOverlay, timers, now,
                  nextId, gen, fits, log, idleStart, superseded >>

\* onEdgesChange with a change of type 'remove' for the edges whose id is
\* id (line 129)
removeEdge(id) ==
  /\ \E j \in DOMAIN edges : edges[j].id = id
  /\ LET keep(e) == e.id # id IN edges' = SelectSeq(edges, keep)
  /\ effect' = <<>>
  /\ lastCmd' = "removeEdge"
  /\ quiet' = FALSE
  /\ fresh' = FALSE
  /\ ops' = ops + 1
  /\ UNCHANGED << nodes, result, showSolution, showResultOverlay, timers, now,
                  nextId, gen, fits, log, idleStart, superseded >>

\* handleSubmit taking the edges it scored off the canvas
handleSubmitConsuming ==
  /\ result' = << Evaluate(nodes, edges) >>
  /\ LET keep(e) == \A r \in DOMAIN expectedFlow :
                      ~Match(nodes, << e >>, r)
     IN edges' = SelectSeq(edges, keep)
  /\ showResultOverlay' = TRUE
  /\ effect' = Effects(Correct(nodes, edges))
  /\ lastCmd' = "evaluate"
  /\ fresh' = TRUE
  /\ UNCHANGED << nodes, showSolution, timers, now, nextId, gen, fits,
                  log, quiet, idleStart, ops, superseded >>

\* handleSubmit, lines 198-235
handleSubmit ==
  /\ result' = << Evaluate(nodes, edges) >>
  /\ showResultOverlay' = TRUE
  /\ effect' = Effects(Correct(nodes, edges))
  /\ lastCmd' = "evaluate"
  /\ fresh' = TRUE
  /\ UNCHANGED << nodes, edges, showSolution, timers, now, nextId, gen, fits,
                  log, quiet, idleStart, ops, superseded >>

\* the reveals of which an edge timer is pending: their last edge is not
\* inserted yet
InFlight == {timers[k].gen : k \in {m \in DOMAIN timers : timers[m].kind = "edge"}}

\* handleReset, lines 237-243: no timer is cleared
handleReset ==
  /\ nodes' = <<>>
  /\ edges' = <<>>
  /\ result' = <<>>
  /\ showSolution' = FALSE
  /\ showResultOverlay' = FALSE
  /\ effect' = <<>>
  /\ lastCmd' = "reset"
  /\ quiet' = FALSE
  /\ fresh' = FALSE
  /\ superseded' = superseded \cup InFlight
  /\ UNCHANGED << timers, now, nextId, gen, fits, log, idleStart, ops >>

\* EdgeTimers with every callback scheduled after the same delay
EdgeTimersSameDelay(g, first) ==
  LET sol == SolutionEdges(first)
  IN [k \in DOMAIN sol |->
        [gen |-> g, kind |-> "edge", i |-> k - 1, edge |-> sol[k],
         rem |-> Stride]]

\* the setTimeout calls of lines 329-338 for reveal g: edge k is due after
\* (k - 1) strides
EdgeTimers(g, first) ==
  LET sol == SolutionEdges(first)
  IN [k \in DOMAIN sol |->
        [gen |-> g, kind |-> "edge", i |-> k - 1, edge |-> sol[k],
         rem |-> (k - 1) * Stride]]

\* handleShowSolution appending the created nodes to the nodes on the canvas
handleShowSolutionKeepNodes ==
  /\ LET created == CreatedNodes(Len(expectedFlow), nextId)
     IN /\ nodes' = nodes \o created
        /\ nextId' = nextId + Len(created)
  /\ edges' = <<>>
  /\ result' = <<>>
  /\ showSolution' = TRUE
  /\ timers' = timers \o EdgeTimers(gen + 1, nextId)
  /\ gen' = gen + 1
  /\ effect' = <<>>
  /\ lastCmd' = "reveal"
  /\ quiet' = TRUE
  /\ idleStart' = (timers = <<>>)
  /\ fresh' = FALSE
  /\ superseded' = superseded \cup InFlight
  /\ UNCHANGED << showResultOverlay, now, fits, log, ops >>

\* handleShowSolution, lines 245-339
handleShowSolution ==
  /\ LET created == CreatedNodes(Len(expectedFlow), nextId)
     IN /\ nodes' = created
        /\ nextId' = nextId + Len(created)
  /\ edges' = <<>>
  /\ result' = <<>>
  /\ showSolution' = TRUE
  /\ timers' = timers \o EdgeTimers(gen + 1, nextId)
  /\ gen' = gen + 1
  /\ effect' = <<>>
  /\ lastCmd' = "reveal"
  /\ quiet' = TRUE
  /\ idleStart' = (timers = <<>>)
  /\ fresh' = FALSE
  /\ superseded' = superseded \cup InFlight
  /\ UNCHANGED << showResultOverlay, now, fits, log, ops >>

\* the timers that are due, and the one the browser runs next
Due == {k \in DOMAIN timers : timers[k].rem = 0}
NextDue == CHOOSE k \in Due : \A m \in Due : k <= m
Without(s, k) == SubSeq(s, 1, k - 1) \o SubSeq(s, k + 1, Len(s))

\* the callback of lines 330-337: append the edge; the last one of a reveal
\* schedules fitView
FireEdge ==
  /\ Due # {}
  /\ timers[NextDue].kind = "edge"
  /\ LET t == timers[NextDue]
         rest == Without(timers, NextDue)
     IN /\ edges' = Append(edges, t.edge)
        /\ timers' = IF t.i = Len(expectedFlow) - 1
                     THEN Append(rest, [gen |-> t.gen, kind |-> "fit",
                                        i |-> t.i, edge |-> t.edge,
                                        rem |-> FitDelay])
                     ELSE rest
        /\ log' = Append(log, [gen |-> t.gen, i |-> t.i, at |-> now])
  /\ fresh' = FALSE
  /\ UNCHANGED << nodes, result, showSolution, showResultOverlay, now, nextId,
                  gen, fits, effect, lastCmd, quiet, idleStart, ops,
                  superseded >>

\* the callback of lines 333-335: fitView
FireFit ==
  /\ Due # {}
  /\ timers[NextDue].kind = "fit"
  /\ fits' = [fits EXCEPT ![timers[NextDue].gen] = @ + 1]
  /\ timers' = Without(timers, NextDue)
  /\ UNCHANGED << nodes, edges, result, showSolution, showResultOverlay, now,
                  nextId, gen, effect, log, lastCmd, quiet, idleStart,
                  fresh, ops, superseded >>

\* time passes by one stride; a timer that is due runs before later ones
Tick ==
  /\ timers # <<>>
  /\ Due = {}
  /\ now' = now + 1
  /\ timers' = [k \in DOMAIN timers |-> [timers[k] EXCEPT !.rem = @ - 1]]
  /\ UNCHANGED << nodes, edges, result, showSolution, showResultOverlay,
                  nextId, gen, fits, effect, log, lastCmd, quiet, idleStart,
                  fresh, ops, superseded >>

\* an uninterrupted reveal: it began with no timer pending and no graph
\* command was handled since its request
Clean == quiet /\ idleStart

\* the kinds the user works on, and the nodes and edges of those kinds
Palette == {nodeTemplates[k] : k \in 1..MaxPalette}
Reachable(nds) == {nds[k].id : k \in {m \in DOMAIN nds : nds[m].label \in Palette}}
Removable(nds, eds) ==
  {eds[j].id : j \in {m \in DOMAIN eds : eds[m].source \in Reachable(nds)
                                         \/ eds[m].target \in Reachable(nds)}}

\* one user graph edit
Edit ==
  \/ \E l \in Palette : \E x \in RandomXs : addNode(l, x)
  \/ \E s \in Reachable(nodes) : \E t \in Reachable(nodes) : onConnect(s, t)
  \/ \E id \in Reachable(nodes) : removeNode(id)
  \/ \E id \in Removable(nodes, edges) : removeEdge(id)

Next ==
  \/ gen + ops < MaxCmds /\ Edit
  \/ handleSubmit
  \/ handleReset
  \/ gen + ops < MaxCmds /\ handleShowSolution
  \/ FireEdge
  \/ FireFit
  \/ Tick

Spec == Init /\ [][Next]_vars

(* --------------------- editing an idle canvas ------------------------- *)
\* the state a first reveal leaves once its last timer has run
Settled ==
  /\ nodes = CreatedNodes(Len(expectedFlow), 1)
  /\ edges = SolutionEdges(1)
  /\ result = <<>>
  /\ showSolution = TRUE
  /\ showResultOverlay = FALSE
  /\ timers = <<>>
  /\ now = (Len(expectedFlow) - 1) * Stride + FitDelay
  /\ nextId = Len(nodeTemplates) + 1
  /\ gen = 1
  /\ fits = [g \in 1..MaxCmds |-> IF g = 1 THEN 1 ELSE 0]
  /\ effect = <<>>
  /\ log = [k \in DOMAIN expectedFlow |->
              [gen |-> 1, i |-> k - 1, at |-> (k - 1) * Stride]]
  /\ lastCmd = "reveal"
  /\ quiet = TRUE
  /\ idleStart = TRUE
  /\ fresh = FALSE
  /\ ops = 0
  /\ superseded = {}

\* the canvas is empty or holds the revealed solution, and no timer is
\* pending: the user edits and submits
InitEdit == Init \/ Settled

NextEdit ==
  \/ ops < MaxEdits /\ Edit
  \/ handleSubmit
  \/ handleReset

SpecEdit == InitEdit /\ [][NextEdit]_vars

(* ------------- connections that name a node no longer shown ----------- *)
\* the ids uuidv4() has returned whose node is not on the canvas
Gone(nds) == {id \in 1..(nextId - 1) : id \notin NodeIds(nds)}

\* the user edits and submits, and onConnect may be handed a connection of
\* which an end is a node the user removed
NextConnect ==
  \/ ops < MaxEdits /\ Edit
  \/ handleSubmit
  \/ /\ ops < MaxEdits
     /\ \E s \in Reachable(nodes) \cup Gone(nodes) :
          \E t \in Reachable(nodes) \cup Gone(nodes) :
            /\ {s, t} \cap Gone(nodes) # {}
            /\ onConnect(s, t)

SpecConnect == InitEdit /\ [][NextConnect]_vars

(* ======================= properties of the reveal ===================== *)
\* the label of the node with this id on the canvas, "" when there is none
LabelOf(nds, id) ==
  LET hits == {k \in DOMAIN nds : nds[k].id = id}
  IN IF hits = {} THEN "" ELSE nds[CHOOSE k \in hits : TRUE].label

\* eds is the reference graph over nds: edge k joins a node of the source
\* kind of reference pair k to a node of its target kind, and no more
IsReferenceGraph(nds, eds) ==
  /\ Len(eds) = Len(expectedFlow)
  /\ \A k \in DOMAIN eds :
       /\ LabelOf(nds, eds[k].source) = expectedFlow[k][1]
       /\ LabelOf(nds, eds[k].target) = expectedFlow[k][2]

\* the edge timers of reveal g that are still pending
PendingEdges(g) ==
  {k \in DOMAIN timers : timers[k].gen = g /\ timers[k].kind = "edge"}

\* the insertions made so far by the timers of reveal g, oldest first
InsertionsOf(g) ==
  LET mine(entry) == entry.gen = g IN SelectSeq(log, mine)

\* the Result of a full match
FullMarks ==
  [correct |-> 11, total |-> 11, accuracy |-> 1000, feedback |-> "Excellent"]

\* C1: after a reset, with no further user command, the canvas has no
\* nodes and no edges, also once the timers of a reveal that was in flight
\* have fired.
C1_ResetCancelsReveal ==
  lastCmd = "reset" => (nodes = <<>> /\ edges = <<>>)

\* C2: once a reveal has finished (no timer left, no command since its
\* request), the edges are exactly the 11 reference edges between the nodes
\* that reveal created, also when an earlier reveal was in flight at the
\* request.
C2_StaleRevealNeverApplies ==
  (lastCmd = "reveal" /\ timers = <<>>) => IsReferenceGraph(nodes, edges)

C4_RevealThenEvaluate ==
  (quiet /\ fresh) => result = << FullMarks >>

\* C4 amended: evaluate() after a reveal that has made all its 11
\* insertions, with no graph command since the reveal request, gives 11 of
\* 11, 100.0 and Excellent, whatever the canvas held before the reveal and
\* whether or not an earlier reveal was still in flight.
C4_FinishedRevealThenEvaluate ==
  (quiet /\ fresh /\ PendingEdges(gen) = {}) => result = << FullMarks >>

\* C4 witness: a canvas that held a user's node was revealed over, the
\* reveal made its insertions and evaluate() ran
C4_Witness ==
  /\ quiet
  /\ fresh
  /\ ops > 0
  /\ PendingEdges(gen) = {}
  /\ result = << FullMarks >>

(* ======================= properties of the scorer ===================== *)
\* every reference pair has two nodes of its kinds on the canvas joined by
\* an edge in its direction
AllKindPairsJoined(nds, eds) ==
  \A r \in DOMAIN expectedFlow :
    \E a \in DOMAIN nds : \E b \in DOMAIN nds : \E j \in DOMAIN eds :
      /\ nds[a].label = expectedFlow[r][1]
      /\ nds[b].label = expectedFlow[r][2]
      /\ eds[j].source = nds[a].id
      /\ eds[j].target = nds[b].id

\* no two nodes on the canvas have the same label
NoDuplicateKinds(nds) ==
  \A a \in DOMAIN nds : \A b \in DOMAIN nds :
    nds[a].label = nds[b].label => a = b

\* C5 as stated: evaluate() reports a full match exactly when every
\* reference pair has some pair of nodes of its kinds joined in its
\* direction.
C5_FullMatchIffKindPairs ==
  fresh => (result[1].correct = result[1].total
              <=> AllKindPairsJoined(nodes, edges))

\* C5 amended: a full match implies that every reference pair has a pair of
\* nodes of its kinds joined in its direction; the converse holds when no
\* two nodes share a kind.
C5_FullMatchImpliesKindPairs ==
  fresh =>
    /\ result[1].correct = result[1].total => AllKindPairsJoined(nodes, edges)
    /\ (NoDuplicateKinds(nodes) /\ AllKindPairsJoined(nodes, edges))
         => result[1].correct = result[1].total

\* C5 witness: evaluate() reported a full match on a canvas with two nodes
\* of one kind
C5_Witness ==
  /\ fresh
  /\ result[1].correct = result[1].total
  /\ ~NoDuplicateKinds(nodes)
  /\ AllKindPairsJoined(nodes, edges)

\* C6: on every canvas the count of matched pairs lies in 0..11 and the
\* total is 11, however many nodes share a kind and however many edges join
\* the same two nodes.
C6_MatchedCountBounded ==
  /\ Len(expectedFlow) = 11
  /\ Correct(nodes, edges) \in 0..11
  /\ result # <<>> => (result[1].correct \in 0..11 /\ result[1].total = 11)

\* C6 witness: evaluate() ran on a canvas where two edges join the same two
\* nodes and every pair is matched
C6_Witness ==
  /\ fresh
  /\ result[1].correct = 11
  /\ \E j \in DOMAIN edges : \E k \in DOMAIN edges :
       j # k /\ edges[j].source = edges[k].source
             /\ edges[j].target = edges[k].target

\* the first nodes of the two kinds of reference pair r are joined
\* target -> source and not source -> target
OnlyReversed(nds, eds, r) ==
  LET si == FindIndex(nds, expectedFlow[r][1])
      ti == FindIndex(nds, expectedFlow[r][2])
  IN /\ si # 0
     /\ ti # 0
     /\ \E j \in DOMAIN eds :
          eds[j].source = nds[ti].id /\ eds[j].target = nds[si].id
     /\ ~\E j \in DOMAIN eds :
          eds[j].source = nds[si].id /\ eds[j].target = nds[ti].id

\* C7: a reference pair whose two nodes are joined only target -> source is
\* not counted: such a pair is no match, and evaluate() counts at most the
\* pairs that are not in that case.
C7_Directionality ==
  /\ \A r \in DOMAIN expectedFlow :
       OnlyReversed(nodes, edges, r) => ~Match(nodes, edges, r)
  /\ fresh =>
       result[1].correct + Cardinality({r \in DOMAIN expectedFlow :
                                          OnlyReversed(nodes, edges, r)})
         <= result[1].total

\* C7 witness: the only edge runs Knowledge Base -> User and evaluate()
\* counted nothing
C7_Witness ==
  /\ fresh
  /\ Len(edges) = 1
  /\ OnlyReversed(nodes, edges, 1)
  /\ result[1].correct = 0

\* C8: evaluate() leaves nodes and edges as they are, and run again on an
\* unchanged canvas it stores the same Result.
C8_EvaluatePure ==
  [][handleSubmit => /\ nodes' = nodes
                     /\ edges' = edges
                     /\ fresh => result' = result]_vars

\* C8 witness: evaluate() ran on a canvas with matched edges, which are
\* still there
C8_Witness ==
  /\ fresh
  /\ lastCmd = "evaluate"
  /\ result[1].correct > 0
  /\ Correct(nodes, edges) = result[1].correct

\* accuracy (in tenths) is m/11*100 rounded to one decimal
RoundedPercent(m, accuracy) ==
  LET d == 11 * accuracy - 1000 * m
  IN 2 * d <= 11 /\ 2 * d >= -11

\* the tier that goes with an accuracy (in tenths)
TierOf(accuracy) ==
  CASE accuracy >= 900 -> "Excellent"
    [] accuracy < 900 /\ accuracy >= 700 -> "Good"
    [] accuracy < 700 /\ accuracy >= 500 -> "Fair"
    [] accuracy < 500 -> "NeedsWork"

\* C9: for every count m in 0..11 the accuracy is m/11*100 rounded to one
\* decimal and the tier follows the 90/70/50 boundaries; 0 gives 0.0 and
\* NeedsWork, 1 gives 9.1 and NeedsWork, 7 gives 63.6 and Fair, 8 gives 72.7
\* and Good, 11 gives 100.0 and Excellent; every stored Result is one of
\* these.
C9_AccuracyAndTier ==
  /\ \A m \in 0..11 :
       /\ RoundedPercent(m, Score(m).accuracy)
       /\ Score(m).feedback = TierOf(Score(m).accuracy)
  /\ Score(0).accuracy = 0 /\ Score(0).feedback = "NeedsWork"
  /\ Score(1).accuracy = 91 /\ Score(1).feedback = "NeedsWork"
  /\ Score(7).accuracy = 636 /\ Score(7).feedback = "Fair"
  /\ Score(8).accuracy = 727 /\ Score(8).feedback = "Good"
  /\ Score(11).accuracy = 1000 /\ Score(11).feedback = "Excellent"
  /\ result # <<>> =>
       /\ result[1].correct \in 0..11
       /\ RoundedPercent(result[1].correct, result[1].accuracy)
       /\ result[1].feedback = TierOf(result[1].accuracy)

\* C9 witness: evaluate() stored 8 of 11, 72.7, Good
C9_Witness ==
  /\ fresh
  /\ result[1].correct = 8
  /\ result[1].accuracy = 727
  /\ result[1].feedback = "Good"

\* C10: evaluate() emits the celebration (success sound and confetti) when
\* the tier is Good or Excellent and the error sound otherwise, one of the
\* two each time; for every count in 0..11 the 0.7 boundary and the tiers
\* agree.
C10_OneFeedbackEffect ==
  /\ \A m \in 0..11 :
       /\ Celebrates(m) <=> Score(m).feedback \in {"Good", "Excellent"}
       /\ Effects(m) = IF 10 * m >= 77 THEN << "success", "confetti" >>
                       ELSE << "error" >>
  /\ lastCmd = "evaluate" =>
       /\ result # <<>>
       /\ \/ /\ effect = << "success", "confetti" >>
             /\ result[1].feedback \in {"Good", "Excellent"}
          \/ /\ effect = << "error" >>
             /\ result[1].feedback \in {"Fair", "NeedsWork"}

\* C10 witness: evaluate() on 8 of 11 celebrated
C10_Witness ==
  /\ lastCmd = "evaluate"
  /\ result[1].correct = 8
  /\ effect = << "success", "confetti" >>

(* ===================== properties of the graph state ================== *)
\* the ids uuidv4() has returned so far
IssuedIds == 1..(nextId - 1)

\* C11: connect(source, target) with an id that is not the id of a node on
\* the canvas leaves nodes and edges as they are; with both ids on the
\* canvas it leaves the nodes alone and the edges then hold the connection,
\* at most one edge longer.
C11_ConnectChecksIds ==
  [][\A s \in IssuedIds : \A t \in IssuedIds :
       onConnect(s, t) =>
         IF s \in NodeIds(nodes) /\ t \in NodeIds(nodes)
         THEN /\ nodes' = nodes
              /\ Len(edges') <= Len(edges) + 1
              /\ SubSeq(edges', 1, Len(edges)) = edges
              /\ \E j \in DOMAIN edges' :
                   edges'[j].source = s /\ edges'[j].target = t
         ELSE nodes' = nodes /\ edges' = edges]_vars

\* C12: whenever an edge is appended to the edge collection, by a connect
\* or by a timer of a reveal, its source and its target are ids of nodes on
\* the canvas at that moment.
C12_EdgeEndsExistAtInsertion ==
  [][(Len(edges') = Len(edges) + 1 /\ SubSeq(edges', 1, Len(edges)) = edges)
       => /\ edges'[Len(edges')].source \in NodeIds(nodes)
          /\ edges'[Len(edges')].target \in NodeIds(nodes)]_vars

\* nds holds exactly one node of each kind, at its place of nodePositions
IsSolutionNodes(nds) ==
  /\ Len(nds) = Len(nodeTemplates)
  /\ \A t \in DOMAIN nodeTemplates :
       \E k \in DOMAIN nds :
         /\ nds[k].label = nodeTemplates[t]
         /\ nds[k].x = nodePositions[nodeTemplates[t]].x
         /\ nds[k].y = nodePositions[nodeTemplates[t]].y

\* C13: once a reveal has finished (no timer left, no command since its
\* request), whatever the canvas and the timer queue held at the request,
\* the canvas holds exactly one node per kind at its fixed position and
\* exactly the 11 reference edges.
C13_RevealRebuildsReference ==
  (lastCmd = "reveal" /\ timers = <<>>)
    => (IsSolutionNodes(nodes) /\ IsReferenceGraph(nodes, edges))

\* C18: no two edges of the edge collection have the same id.
C18_EdgeIdsUnique ==
  \A j \in DOMAIN edges : \A k \in DOMAIN edges :
    edges[j].id = edges[k].id => j = k

\* an edge of eds has an end that is not the id of a node of nds
Dangling(nds, e) == e.source \notin NodeIds(nds) \/ e.target \notin NodeIds(nds)

\* reference pair r has an edge of eds, both ends on the canvas, from a node
\* of its source kind to a node of its target kind
JoinedByLiveEdge(nds, eds, r) ==
  \E j \in DOMAIN eds :
    /\ ~Dangling(nds, eds[j])
    /\ LabelOf(nds, eds[j].source) = expectedFlow[r][1]
    /\ LabelOf(nds, eds[j].target) = expectedFlow[r][2]

\* C14: evaluate() can always run and stores a Result, and a pair it counts
\* is joined by an edge whose two ends are nodes on the canvas: edges left
\* dangling by removeNode count for nothing.
C14_DanglingEdgesIgnored ==
  /\ ENABLED handleSubmit
  /\ \A r \in DOMAIN expectedFlow :
       Match(nodes, edges, r) => JoinedByLiveEdge(nodes, edges, r)
  /\ fresh =>
       /\ result # <<>>
       /\ result[1].correct <=
            Cardinality({r \in DOMAIN expectedFlow :
                           JoinedByLiveEdge(nodes, edges, r)})

\* C14 witness: evaluate() ran after removeNode left an edge dangling, and
\* counted fewer than the edges present
C14_Witness ==
  /\ fresh
  /\ lastCmd = "evaluate"
  /\ \E j \in DOMAIN edges : Dangling(nodes, edges[j])
  /\ result[1].correct < Len(edges)

\* node a of nds is the earliest-inserted node of its kind
Earliest(nds, a) == \A b \in 1..(a - 1) : nds[b].label # nds[a].label

\* the earliest node of the source kind of pair r and the earliest node of
\* its target kind are joined source -> target in eds
EarliestJoined(nds, eds, r) ==
  \E a \in DOMAIN nds : \E b \in DOMAIN nds : \E j \in DOMAIN eds :
    /\ nds[a].label = expectedFlow[r][1] /\ Earliest(nds, a)
    /\ nds[b].label = expectedFlow[r][2] /\ Earliest(nds, b)
    /\ eds[j].source = nds[a].id
    /\ eds[j].target = nds[b].id

\* pair r is joined source -> target between nodes of its kinds of which
\* one is a later duplicate, and not between the two earliest nodes
JoinedAtDuplicateOnly(nds, eds, r) ==
  /\ ~EarliestJoined(nds, eds, r)
  /\ \E a \in DOMAIN nds : \E b \in DOMAIN nds : \E j \in DOMAIN eds :
       /\ nds[a].label = expectedFlow[r][1]
       /\ nds[b].label = expectedFlow[r][2]
       /\ eds[j].source = nds[a].id
       /\ eds[j].target = nds[b].id

\* C15: a reference pair is counted exactly when the earliest-inserted node
\* of its source kind and the earliest-inserted node of its target kind are
\* joined source -> target; an edge at a later duplicate of a kind does not
\* make the pair count.
C15_FirstMatchOnly ==
  /\ \A r \in DOMAIN expectedFlow :
       Match(nodes, edges, r) <=> EarliestJoined(nodes, edges, r)
  /\ fresh =>
       result[1].correct =
         Cardinality({r \in DOMAIN expectedFlow :
                        EarliestJoined(nodes, edges, r)})

\* C15 witness: evaluate() ran on a canvas where User -> Knowledge Base is
\* joined only from a second User node, and did not count that pair
C15_Witness ==
  /\ fresh
  /\ JoinedAtDuplicateOnly(nodes, edges, 1)
  /\ result[1].correct = 10

\* the step appends one edge to the edge collection and leaves the nodes
EdgeAdded ==
  /\ nodes' = nodes
  /\ Len(edges') = Len(edges) + 1
  /\ SubSeq(edges', 1, Len(edges)) = edges

\* e joins the same two ids as an edge of eds
Repeats(eds, e) ==
  \E j \in DOMAIN eds : eds[j].source = e.source /\ eds[j].target = e.target

\* the kinds of the two ends of e are a reference pair
JoinsReferenceKinds(nds, e) ==
  \E r \in DOMAIN expectedFlow :
    /\ LabelOf(nds, e.source) = expectedFlow[r][1]
    /\ LabelOf(nds, e.target) = expectedFlow[r][2]

\* C16: appending an edge never lowers the matched count and raises it by
\* at most 1; an edge that repeats the source and target of an edge already
\* there, or whose kinds are not a reference pair, leaves it unchanged.
C16_ExtraEdgesNeutral ==
  [][EdgeAdded =>
       LET before == Correct(nodes, edges)
           after == Correct(nodes', edges')
           e == edges'[Len(edges')]
       IN /\ after >= before
          /\ after <= before + 1
          /\ Repeats(edges, e) => after = before
          /\ ~JoinsReferenceKinds(nodes, e) => after = before]_vars

\* C16 witness: a timer of the reveal has appended an edge between two nodes
\* the user had already connected
C16_Witness ==
  /\ lastCmd = "connect"
  /\ Correct(nodes, edges) > 0
  /\ \E j \in DOMAIN edges : \E k \in DOMAIN edges :
       /\ j < k
       /\ edges[j].id.tag = "rf"
       /\ edges[k].id.tag = "e"
       /\ edges[j].source = edges[k].source
       /\ edges[j].target = edges[k].target

\* C17: addNode can be taken for every kind, whatever is on the canvas; it
\* appends one node whose id no node on the canvas has, keeps the nodes that
\* were there in their order, keeps the edges, and so keeps the count of
\* matched pairs.
C17_AddNodeFrame ==
  /\ [](\A k \in DOMAIN nodeTemplates : \A x \in RandomXs :
          ENABLED addNode(nodeTemplates[k], x))
  /\ [][(\E l \in Palette : \E x \in RandomXs : addNode(l, x)) =>
          /\ Len(nodes') = Len(nodes) + 1
          /\ SubSeq(nodes', 1, Len(nodes)) = nodes
          /\ nodes'[Len(nodes')].id \notin NodeIds(nodes)
          /\ edges' = edges
          /\ Correct(nodes', edges') = Correct(nodes, edges)]_vars

\* C17 witness: the node added last is of a kind another node already has,
\* on a canvas where reference pairs are matched
C17_Witness ==
  /\ lastCmd = "addNode"
  /\ Len(nodes) > 1
  /\ \E k \in 1..(Len(nodes) - 1) : nodes[k].label = nodes[Len(nodes)].label
  /\ Correct(nodes, edges) > 0

\* the reveals whose timers made all 11 insertions and that no reset and no
\* later reveal overtook
Completed ==
  {g \in 1..gen : Len(InsertionsOf(g)) = Len(expectedFlow) /\ g \notin superseded}

RECURSIVE SumFits(_)
SumFits(g) == IF g = 0 THEN 0 ELSE fits[g] + SumFits(g - 1)

\* C19: a reveal overtaken by a reset or by a later reveal before its last
\* edge was inserted never calls fitView, and the fitView calls made so far
\* are no more than the reveals that made their 11 insertions without being
\* overtaken.
C19_SupersededNeverSettles ==
  /\ \A g \in superseded : fits[g] = 0
  /\ SumFits(MaxCmds) <= Cardinality(Completed)

\* the edges of the latest reveal, while its nodes are the nodes on the
\* canvas
LatestSolutionEdges == SolutionEdges(nextId - Len(nodes))

\* C20: while no graph command was handled since the reveal request, the
\* edges on the canvas are the first k edges of the revealed solution, k the
\* number of insertions so far, and evaluate() reports k matched pairs.
C20_RevealIsPrefix ==
  quiet =>
    /\ Len(edges) <= Len(expectedFlow)
    /\ edges = SubSeq(LatestSolutionEdges, 1, Len(edges))
    /\ Correct(nodes, edges) = Len(edges)
    /\ fresh => result[1].correct = Len(edges)
====
